---- MODULE Spec2Model ----
(***************************************************************************)
(* State-machine model of src/sw5e-mod-manager.js: a chassis item hosts    *)
(* modification items.  The model covers the creation interceptor and the  *)
(* manual wrapper (type masking), the drop handler (gating), the action    *)
(* dialog (Roll Check / Direct / Cancel) and performInstall/performRemove. *)
(***************************************************************************)
EXTENDS Naturals, Integers, Sequences, FiniteSets, Bags, TLC

VARIABLES
    chassis,        \* the chassis document: [rarity, hasActor], fixed after Init
    settings,       \* world settings 'slots-<rarity>' -> Number
    items,          \* item documents by id (NoItem when absent / deleted)
    nextId,         \* next document id the host hands out
    installedMods,  \* chassis flag 'sw5e-mod-manager'.installedMods
    properties,     \* chassis.system.properties (a Set in the host system)
    effects,        \* chassis.effects, the embedded ActiveEffect collection
    dialogs,        \* bag of open action dialogs (non-modal, several can be open)
    tasks,          \* suspended async performInstall/performRemove calls
    last,           \* history: the handler that ran last and what it reported
    undo            \* history: chassis snapshot taken by the latest install

vars == <<chassis, settings, items, nextId, installedMods, properties,
          effects, dialogs, tasks, last, undo>>

---------------------------------------------------------------------------
(* Bounds of the model *)

MaxDialogs == 2
MaxCreated == 1
MaxInstalled == 3
MaxEffects == 3
MaxSlots == 3
MaxChanged == 1

(* The owner's roll data: @abilities.int.mod and @prof. *)
IntMod == 2
Prof == 2

---------------------------------------------------------------------------
(* Rarity tables *)

\* (x || "common").toLowerCase().replace(/\s/g, ''), on the labels in use.
NormalizeRarity(raw) ==
    CASE raw = ""          -> "common"
      [] raw = "Common"    -> "common"
      [] raw = "Rare"      -> "rare"
      [] raw = "Very Rare" -> "veryrare"
      [] raw = "Legendary" -> "legendary"
      [] OTHER             -> raw

rarityDefaults ==
    [common |-> 2, standard |-> 2, uncommon |-> 3, premium |-> 3,
     rare |-> 4, prototype |-> 4, veryrare |-> 5, advanced |-> 5,
     legendary |-> 6, artifact |-> 8]

rarityScale ==
    [common |-> 1, standard |-> 1, uncommon |-> 2, premium |-> 2,
     rare |-> 3, prototype |-> 3, veryrare |-> 4, advanced |-> 4,
     legendary |-> 5, artifact |-> 6]

rarities ==
    [common |-> 10, standard |-> 10, uncommon |-> 14, premium |-> 14,
     rare |-> 18, prototype |-> 18, veryrare |-> 22, advanced |-> 22,
     legendary |-> 26, artifact |-> 30]

\* rarityScale[str] || 1
Rank(raw) ==
    LET k == NormalizeRarity(raw)
    IN  IF k \in DOMAIN rarityScale THEN rarityScale[k] ELSE 1

\* rarities[rarityKey] || 14
DC(raw) ==
    LET k == NormalizeRarity(raw)
    IN  IF k \in DOMAIN rarities THEN rarities[k] ELSE 14

---------------------------------------------------------------------------
(* Item documents *)

NoItem == [type |-> "none"]
NoData == [type |-> "none"]

knownProperties ==
    <<"brutal", "keen", "vicious", "defensive", "shielding", "vibration",
      "ion", "reach", "versatile", "biting", "corruption", "disarming",
      "disruptive", "electrified", "hidden", "penetrating", "rapid",
      "shocking", "silent">>

\* name.toLowerCase().includes(token), tabulated for the names in use.
NameIncludes(name, token) ==
    token \in (CASE name = "Keen Edge"         -> {"keen"}
                 [] name = "Ion Keen Cell"     -> {"ion", "keen"}
                 [] name = "Overcharge"        -> {}
                 [] name = "Rope"              -> {}
                 [] OTHER                      -> {})

\* A document's data, item.toObject(): everything but where it is stored.
DataFields ==
    {"id", "name", "type", "rarity", "props", "effects", "sysType",
     "sw5eType", "wrapped", "orig"}

toObject(item) == [f \in DataFields |-> item[f]]

\* A stored document: its data and the collection holding it
\* ("pack" = compendium, "world" = item directory, "actor" = the inventory
\* of the chassis's owner).
Stored(data, where) ==
    [f \in DataFields \cup {"where"} |->
        IF f = "where" THEN where ELSE data[f]]

Effect(label) ==
    [label |-> label, transfer |-> FALSE, origin |-> "mod", sourceMod |-> 0]

\* item.getFlag('sw5e-mod-manager', 'isWrappedMod')
isWrappedMod(item) == item.wrapped

\* item.getFlag('sw5e-mod-manager', 'originalModData')
originalModData(item) == item.orig

\* item.uuid.toLowerCase().includes('modifications'): only the uuid of a
\* document of the modifications compendium names that collection.
UuidIncludesModifications(item) == item.where = "pack"

isModification(item) ==
    IF item = NoItem THEN FALSE
    ELSE IF isWrappedMod(item) THEN TRUE
    ELSE IF UuidIncludesModifications(item) THEN TRUE
    ELSE LET nameMatch == NameIncludes(item.name, "modification")
             typeMatch == \/ item.sysType = "modification"
                          \/ item.type = "modification"
             sw5eFlag  == item.sw5eType = "modification"
         IN  nameMatch \/ typeMatch \/ sw5eFlag

\* lootWrapper that keeps the declared type of the original record.
lootWrapper_KeepsType(originalData) ==
    [id |-> 0, name |-> originalData.name, type |-> originalData.type,
     rarity |-> originalData.rarity, props |-> <<>>, effects |-> <<>>,
     sysType |-> "", sw5eType |-> "", wrapped |-> TRUE,
     orig |-> originalData]

\* The loot wrapper built by wrapModification and by performRemove's salvage:
\* name and rarity are copied, system.properties, effects and foreign flags
\* are not; the whole original record goes under the module's flag.
lootWrapper(originalData) ==
    [id |-> 0, name |-> originalData.name, type |-> "loot",
     rarity |-> originalData.rarity, props |-> <<>>, effects |-> <<>>,
     sysType |-> "", sw5eType |-> "", wrapped |-> TRUE,
     orig |-> originalData]

\* preCreateItem: data of type "modification" is rewritten in place
\* (item.updateSource) to type "loot" carrying item.toObject() in its flags;
\* any other data passes untouched.
preCreateItem(data) ==
    IF data.type # "modification" THEN data
    ELSE [data EXCEPT !.type = "loot", !.wrapped = TRUE, !.orig = data]

\* modDataOf without the isWrappedMod branch: the wrapper itself is stored.
modDataOf_NoUnwrap(mod) == toObject(mod)

\* The record performInstall stores as originalData.
modDataOf(mod) ==
    IF isWrappedMod(mod) THEN originalModData(mod) ELSE toObject(mod)

getInjectedProperties(mod) ==
    SelectSeq(knownProperties, LAMBDA p : NameIncludes(mod.name, p))
        \o mod.props

---------------------------------------------------------------------------
(* Slot and rarity gating *)

\* game.settings.get('sw5e-mod-manager', `slots-${rarity}`) ?? 2
slotMax(item) ==
    LET k == NormalizeRarity(item.rarity)
    IN  IF k \in DOMAIN settings THEN settings[k] ELSE 2

hasAvailableSlots(item) == Len(installedMods) < slotMax(item)

\* validateRarity with the two ranks compared the wrong way round.
validateRarity_Reversed(item, mod) ==
    ~(Rank(item.rarity) > Rank(mod.rarity))

\* return false when modRank > itemRank, true otherwise
validateRarity(item, mod) == ~(Rank(mod.rarity) > Rank(item.rarity))

---------------------------------------------------------------------------
(* performInstall and performRemove, as functions of the chassis state *)

Range(seq) == {seq[i] : i \in DOMAIN seq}

\* new Dialog(..).render(true), and the close that follows any button.
\* MaxDialogs bounds the open dialogs and the suspended calls together.
Pending == BagCardinality(dialogs) + Cardinality(tasks)
Open(bag, d) == bag (+) SetToBag({d})
Close(bag, d) == bag (-) SetToBag({d})

processedEffects(mod) ==
    [i \in DOMAIN mod.effects |->
        [mod.effects[i] EXCEPT !.transfer = TRUE, !.origin = "chassis",
                               !.sourceMod = mod.id]]

newModData(mod) ==
    [id |-> mod.id, name |-> mod.name, uuid |-> <<mod.where, mod.id>>,
     rarity |-> mod.rarity, originalData |-> modDataOf(mod),
     properties |-> getInjectedProperties(mod),
     effects |-> processedEffects(mod)]

\* installMods that writes the list back without the new entry.
installMods_NoAppend(currentMods, mod) == currentMods

\* const updatedMods = [...currentMods, newModData]
installMods(currentMods, mod) == Append(currentMods, newModData(mod))

\* createEmbeddedDocuments("ActiveEffect", processedEffects) inside try/catch:
\* a rejection by the host is logged and the install goes on.
installEffects(currentEffects, mod, hostOk) ==
    IF Len(processedEffects(mod)) > 0 /\ hostOk
    THEN currentEffects \o processedEffects(mod)
    ELSE currentEffects

\* const newProps = [...new Set([...currentProps, ...injectedProps])]
installProps(currentProps, mod) ==
    IF Len(getInjectedProperties(mod)) > 0
    THEN currentProps \cup Range(getInjectedProperties(mod))
    ELSE currentProps

\* chassis.actor.items.get(mod.id), then itemInInv.delete()
consumeItem(store, mod) ==
    IF /\ chassis.hasActor
       /\ store[mod.id] # NoItem
       /\ store[mod.id].where = "actor"
    THEN [store EXCEPT ![mod.id] = NoItem]
    ELSE store

\* currentMods.find(m => m.id === modId); NoData stands for undefined.
findMod(currentMods, modId) ==
    IF \E i \in DOMAIN currentMods : currentMods[i].id = modId
    THEN currentMods[CHOOSE i \in DOMAIN currentMods :
                        /\ currentMods[i].id = modId
                        /\ \A j \in 1..(i - 1) : currentMods[j].id # modId]
    ELSE NoData

\* currentMods.filter(m => m.id !== modId)
removeMods(currentMods, modId) ==
    SelectSeq(currentMods, LAMBDA m : m.id # modId)

\* removeEffects that deletes nothing.
removeEffects_KeepsAll(currentEffects, modId) == currentEffects

\* chassis.effects.filter(e => e.getFlag(.., 'sourceMod') === modId) deleted
removeEffects(currentEffects, modId) ==
    SelectSeq(currentEffects, LAMBDA e : e.sourceMod # modId)

\* currentProps.filter(p => !modToRemoval.properties.includes(p))
removeProps(currentProps, modToRemoval) ==
    IF modToRemoval # NoData /\ Len(modToRemoval.properties) > 0
    THEN currentProps \ Range(modToRemoval.properties)
    ELSE currentProps

\* isSalvaged && chassis.actor && modToRemoval?.originalData
salvages(modToRemoval, isSalvaged) ==
    isSalvaged /\ chassis.hasActor /\ modToRemoval # NoData

\* What performRemove reports; a removal that is not a salvage reads
\* modToRemoval.name, which throws when the id was not found.
removeOutcome(modToRemoval, isSalvaged) ==
    IF salvages(modToRemoval, isSalvaged) THEN "salvaged"
    ELSE IF ~isSalvaged
         THEN (IF modToRemoval # NoData THEN "destroyed" ELSE "threw")
         ELSE "none"

---------------------------------------------------------------------------
(* Initial state *)

RawItem(id, name, type, rarity, props, fx) ==
    [id |-> id, name |-> name, type |-> type, rarity |-> rarity,
     props |-> props, effects |-> fx, sysType |-> "", sw5eType |-> "",
     wrapped |-> FALSE, orig |-> NoData]

InitialIds == 1..4
NumInitial == Cardinality(InitialIds)
MaxId == NumInitial + MaxCreated
Ids == 1..MaxId

\* Items 1 and 2 are compendium modifications, item 3 is a raw modification
\* that was stored before the interceptor was active, item 4 is plain loot.
InitialItems(hasActor) ==
    [i \in Ids |->
        CASE i = 1 -> Stored(RawItem(1, "Keen Edge", "modification", "Common",
                                     <<>>, <<Effect("fx1")>>), "pack")
          [] i = 2 -> Stored(RawItem(2, "Overcharge", "modification", "Rare",
                                     <<"keen">>, <<>>), "pack")
          [] i = 3 -> Stored(RawItem(3, "Ion Keen Cell", "modification", "",
                                     <<>>, <<>>),
                             IF hasActor THEN "actor" ELSE "world")
          [] i = 4 -> Stored(RawItem(4, "Rope", "loot", "Common",
                                     <<>>, <<>>), "world")
          [] OTHER -> NoItem]

\* The chassis of the model: a common weapon, owned by an actor or lying in
\* the item directory.
Chassis ==
    {[rarity |-> "Common", hasActor |-> TRUE],
     [rarity |-> "Common", hasActor |-> FALSE]}

NoUndo == [id |-> 0]

\* What the handler that ran last did: the control used, the dialog's action,
\* the id of the item or entry it was given, the notification or result, the
\* roll total (0 when no roll was drawn) and whether the host accepted the
\* effect creation.
Report(op, action, id, outcome, total, hostOk) ==
    [op |-> op, action |-> action, id |-> id, outcome |-> outcome,
     total |-> total, hostOk |-> hostOk]

Init ==
    /\ chassis \in Chassis
    /\ settings = rarityDefaults
    /\ items = InitialItems(chassis.hasActor)
    /\ nextId = NumInitial + 1
    /\ installedMods = <<>>
    /\ properties = {}
    /\ effects = <<>>
    /\ dialogs = EmptyBag
    /\ tasks = {}
    /\ last = Report("init", "none", 0, "none", 0, TRUE)
    /\ undo = NoUndo

---------------------------------------------------------------------------
(* Item creation and manual wrapping *)

Destinations == IF chassis.hasActor THEN {"actor", "world"} ELSE {"world"}

\* A user creates an item from a compendium entry (drag to the directory or
\* to the owner's sheet); the preCreateItem hook rewrites the data first.
CreateItem(src, dest) ==
    /\ nextId <= MaxId
    /\ items[src] # NoItem
    /\ items[src].where = "pack"
    /\ dest \in Destinations
    /\ items' = [items EXCEPT ![nextId] =
                    Stored([preCreateItem(toObject(items[src]))
                                EXCEPT !.id = nextId], dest)]
    /\ nextId' = nextId + 1
    /\ last' = Report("create", "none", src, "created", 0, TRUE)
    /\ undo' = NoUndo
    /\ UNCHANGED <<chassis, settings, installedMods, properties, effects,
                   dialogs, tasks>>

\* Context menu entry "Wrap as SW5e Modification": offered on directory and
\* inventory items that look like a modification and are not wrapped yet.
wrapModification(id) ==
    /\ nextId <= MaxId
    /\ items[id] # NoItem
    /\ items[id].where \in {"world", "actor"}
    /\ isModification(items[id])
    /\ ~isWrappedMod(items[id])
    /\ items' = [items EXCEPT
                    ![nextId] = Stored([lootWrapper(toObject(items[id]))
                                            EXCEPT !.id = nextId],
                                       items[id].where),
                    ![id] = NoItem]
    /\ nextId' = nextId + 1
    /\ last' = Report("wrap", "none", id, "wrapped", 0, TRUE)
    /\ undo' = NoUndo
    /\ UNCHANGED <<chassis, settings, installedMods, properties, effects,
                   dialogs, tasks>>

---------------------------------------------------------------------------
(* The drop handler of the Modifications tab *)

\* The drop handler's checks with the rarity check ahead of the capacity
\* check.
dropOutcome_RarityFirst(modItem) ==
    IF ~isModification(modItem) THEN "notmod"
    ELSE IF ~validateRarity(chassis, modItem) THEN "rarity"
    ELSE IF ~hasAvailableSlots(chassis) THEN "full"
    ELSE "dialog"

dropOutcome(modItem) ==
    IF ~isModification(modItem) THEN "notmod"
    ELSE IF ~hasAvailableSlots(chassis) THEN "full"
    ELSE IF ~validateRarity(chassis, modItem) THEN "rarity"
    ELSE "dialog"

Drop(id) ==
    /\ items[id] # NoItem
    /\ dropOutcome(items[id]) = "dialog" => Pending < MaxDialogs
    /\ dialogs' = IF dropOutcome(items[id]) = "dialog"
                  THEN Open(dialogs, [action |-> "install",
                                      mod |-> items[id]])
                  ELSE dialogs
    /\ last' = Report("drop", "install", id, dropOutcome(items[id]), 0, TRUE)
    /\ undo' = NoUndo
    /\ UNCHANGED <<chassis, settings, items, nextId, installedMods,
                   properties, effects, tasks>>

\* The uninstall control of a listed modification.
ClickRemove(modId) ==
    /\ findMod(installedMods, modId) # NoData
    /\ Pending < MaxDialogs
    /\ dialogs' = Open(dialogs, [action |-> "remove",
                                 mod |-> findMod(installedMods, modId)])
    /\ last' = Report("click", "remove", modId, "dialog", 0, TRUE)
    /\ UNCHANGED <<chassis, settings, items, nextId, installedMods,
                   properties, effects, tasks, undo>>

---------------------------------------------------------------------------
(* The action dialog: Roll Check, Direct, Cancel *)

\* The faces of the d20 the model draws: the extremes and the two faces
\* around the DC of a common modification.
D20 == {1, 5, 6, 20}

\* performInstall(chassis, mod) from the list it read (currentMods) to its
\* end: the setFlag of the list computed from that read, the effects, the
\* tags, the deletion of the inventory item and the notification.
PerformInstallOn(currentMods, mod, hostOk, op, total) ==
    /\ Len(currentMods) < MaxInstalled
    /\ Len(installEffects(effects, mod, hostOk)) <= MaxEffects
    /\ hostOk \/ Len(processedEffects(mod)) > 0
    /\ installedMods' = installMods(currentMods, mod)
    /\ effects' = installEffects(effects, mod, hostOk)
    /\ properties' = installProps(properties, mod)
    /\ items' = consumeItem(items, mod)
    /\ undo' = [id |-> mod.id, op |-> op, mods |-> installedMods,
                props |-> properties, effects |-> effects]
    /\ last' = Report(op, "install", mod.id, "installed", total, hostOk)
    /\ UNCHANGED <<chassis, settings, nextId>>

\* performRemove(chassis, modId, isSalvaged) from the list it read to its end.
PerformRemoveOn(currentMods, modId, isSalvaged, op, total) ==
    LET modToRemoval == findMod(currentMods, modId)
        salvage      == salvages(modToRemoval, isSalvaged)
    IN  /\ salvage => nextId <= MaxId
        /\ installedMods' = removeMods(currentMods, modId)
        /\ effects' = removeEffects(effects, modId)
        /\ properties' = removeProps(properties, modToRemoval)
        /\ items' = IF salvage
                    THEN [items EXCEPT ![nextId] =
                            Stored([lootWrapper(modToRemoval.originalData)
                                        EXCEPT !.id = nextId], "actor")]
                    ELSE items
        /\ nextId' = IF salvage THEN nextId + 1 ELSE nextId
        /\ undo' = NoUndo
        /\ last' = Report(op, "remove", modId,
                          removeOutcome(modToRemoval, isSalvaged), total,
                          TRUE)
        /\ UNCHANGED <<chassis, settings>>

\* The calls as they run when nothing else runs during their awaits.
PerformInstall(mod, hostOk, op, total) ==
    /\ PerformInstallOn(installedMods, mod, hostOk, op, total)
    /\ UNCHANGED tasks

PerformRemove(modId, isSalvaged, op, total) ==
    /\ PerformRemoveOn(installedMods, modId, isSalvaged, op, total)
    /\ UNCHANGED tasks

\* The roll callback without the "if (!actor) return" guard: it goes on to
\* the install or the removal.
RollNoActor_NoGuard(d) ==
    /\ BagIn(d, dialogs)
    /\ ~chassis.hasActor
    /\ dialogs' = Close(dialogs, d)
    /\ IF d.action = "install"
       THEN PerformInstall(d.mod, TRUE, "roll", 0)
       ELSE PerformRemove(d.mod.id, TRUE, "roll", 0)

\* Roll Check on a chassis that has no owner: the callback returns at once.
RollNoActor(d) ==
    /\ BagIn(d, dialogs)
    /\ ~chassis.hasActor
    /\ dialogs' = Close(dialogs, d)
    /\ last' = Report("roll", d.action, d.mod.id,
                      "noactor", 0, TRUE)
    /\ undo' = NoUndo
    /\ UNCHANGED <<chassis, settings, items, nextId, installedMods,
                   properties, effects, tasks>>

rollTotal(d20) == d20 + IntMod + Prof

\* The roll callback of an install with the comparison against the DC left
\* out: performInstall runs whatever the total.
RollInstall_IgnoresRoll(d, d20, hostOk) ==
    /\ BagIn(d, dialogs)
    /\ d.action = "install"
    /\ chassis.hasActor
    /\ dialogs' = Close(dialogs, d)
    /\ PerformInstall(d.mod, hostOk, "roll", rollTotal(d20))

\* The roll callback of an install with the DC looked up from the chassis's
\* rarity instead of the modification's.
RollInstall_ChassisDC(d, d20, hostOk) ==
    /\ BagIn(d, dialogs)
    /\ d.action = "install"
    /\ chassis.hasActor
    /\ dialogs' = Close(dialogs, d)
    /\ IF rollTotal(d20) >= DC(chassis.rarity)
       THEN PerformInstall(d.mod, hostOk, "roll", rollTotal(d20))
       ELSE /\ hostOk
            /\ last' = Report("roll", "install", d.mod.id,
                              "failed", rollTotal(d20), TRUE)
            /\ undo' = NoUndo
            /\ UNCHANGED <<chassis, settings, items, nextId, installedMods,
                           properties, effects, tasks>>

RollInstall(d, d20, hostOk) ==
    /\ BagIn(d, dialogs)
    /\ d.action = "install"
    /\ chassis.hasActor
    /\ dialogs' = Close(dialogs, d)
    /\ IF rollTotal(d20) >= DC(d.mod.rarity)
       THEN PerformInstall(d.mod, hostOk, "roll", rollTotal(d20))
       ELSE /\ hostOk
            /\ last' = Report("roll", "install", d.mod.id,
                              "failed", rollTotal(d20), TRUE)
            /\ undo' = NoUndo
            /\ UNCHANGED <<chassis, settings, items, nextId, installedMods,
                           properties, effects, tasks>>

\* The roll callback of a removal whose failure branch removes with salvage
\* when the checkbox is not set, instead of leaving the entry installed.
RollRemove_FailSalvages(d, d20, destroyOnFail) ==
    /\ BagIn(d, dialogs)
    /\ d.action = "remove"
    /\ chassis.hasActor
    /\ dialogs' = Close(dialogs, d)
    /\ IF rollTotal(d20) >= DC(d.mod.rarity)
       THEN PerformRemove(d.mod.id, TRUE, "roll", rollTotal(d20))
       ELSE PerformRemove(d.mod.id, ~destroyOnFail, "roll", rollTotal(d20))

RollRemove(d, d20, destroyOnFail) ==
    /\ BagIn(d, dialogs)
    /\ d.action = "remove"
    /\ chassis.hasActor
    /\ dialogs' = Close(dialogs, d)
    /\ IF rollTotal(d20) >= DC(d.mod.rarity)
       THEN PerformRemove(d.mod.id, TRUE, "roll", rollTotal(d20))
       ELSE IF destroyOnFail
            THEN PerformRemove(d.mod.id, FALSE, "roll",
                               rollTotal(d20))
            ELSE /\ last' = Report("roll", "remove", d.mod.id,
                                   "kept", rollTotal(d20), TRUE)
                 /\ undo' = NoUndo
                 /\ UNCHANGED <<chassis, settings, items, nextId,
                                installedMods, properties, effects, tasks>>

DirectInstall(d, hostOk) ==
    /\ BagIn(d, dialogs)
    /\ d.action = "install"
    /\ dialogs' = Close(dialogs, d)
    /\ PerformInstall(d.mod, hostOk, "direct", 0)

DirectRemove(d) ==
    /\ BagIn(d, dialogs)
    /\ d.action = "remove"
    /\ dialogs' = Close(dialogs, d)
    /\ PerformRemove(d.mod.id, TRUE, "direct", 0)

Cancel(d) ==
    /\ BagIn(d, dialogs)
    /\ dialogs' = Close(dialogs, d)
    /\ last' = Report("cancel", d.action, d.mod.id,
                      "none", 0, TRUE)
    /\ undo' = NoUndo
    /\ UNCHANGED <<chassis, settings, items, nextId, installedMods,
                   properties, effects, tasks>>

---------------------------------------------------------------------------
(* Every handler runs to completion *)

Next ==
    \/ \E src \in Ids, dest \in {"actor", "world"} : CreateItem(src, dest)
    \/ \E id \in Ids : wrapModification(id)
    \/ \E id \in Ids : Drop(id)
    \/ \E modId \in Ids : ClickRemove(modId)
    \/ \E d \in BagToSet(dialogs) : RollNoActor(d)
    \/ \E d \in BagToSet(dialogs), d20 \in D20, hostOk \in BOOLEAN :
            RollInstall(d, d20, hostOk)
    \/ \E d \in BagToSet(dialogs), d20 \in D20, destroyOnFail \in BOOLEAN :
            RollRemove(d, d20, destroyOnFail)
    \/ \E d \in BagToSet(dialogs), hostOk \in BOOLEAN : DirectInstall(d, hostOk)
    \/ \E d \in BagToSet(dialogs) : DirectRemove(d)
    \/ \E d \in BagToSet(dialogs) : Cancel(d)

Spec == Init /\ [][Next]_vars

---------------------------------------------------------------------------
(* The awaits of performInstall and performRemove *)

\* Both functions read the installedMods flag, compute the updated list and
\* await chassis.setFlag; the dialogs are not modal, so another button can be
\* pressed while the call is suspended.  StartInstall and StartRemove are the
\* Direct callbacks up to that first await, Resume is the rest of the call,
\* which writes the list computed from the earlier read.  A Start followed at
\* once by its Resume is the call of Spec; this specification leaves out item
\* creation and the Roll Check button.
StartInstall(d, hostOk) ==
    /\ BagIn(d, dialogs)
    /\ d.action = "install"
    /\ hostOk \/ Len(processedEffects(d.mod)) > 0
    /\ dialogs' = Close(dialogs, d)
    /\ tasks' = tasks \cup {[action |-> "install", mod |-> d.mod,
                             hostOk |-> hostOk, currentMods |-> installedMods]}
    /\ last' = Report("direct", "install", d.mod.id, "awaiting", 0, TRUE)
    /\ undo' = NoUndo
    /\ UNCHANGED <<chassis, settings, items, nextId, installedMods,
                   properties, effects>>

StartRemove(d) ==
    /\ BagIn(d, dialogs)
    /\ d.action = "remove"
    /\ dialogs' = Close(dialogs, d)
    /\ tasks' = tasks \cup {[action |-> "remove", mod |-> d.mod,
                             hostOk |-> TRUE, currentMods |-> installedMods]}
    /\ last' = Report("direct", "remove", d.mod.id, "awaiting", 0, TRUE)
    /\ undo' = NoUndo
    /\ UNCHANGED <<chassis, settings, items, nextId, installedMods,
                   properties, effects>>

Resume(t) ==
    /\ t \in tasks
    /\ tasks' = tasks \ {t}
    /\ UNCHANGED dialogs
    /\ IF t.action = "install"
       THEN PerformInstallOn(t.currentMods, t.mod, t.hostOk, "direct", 0)
       ELSE PerformRemoveOn(t.currentMods, t.mod.id, TRUE, "direct", 0)

NextAsync ==
    \/ \E id \in Ids : Drop(id)
    \/ \E modId \in Ids : ClickRemove(modId)
    \/ \E d \in BagToSet(dialogs) : Cancel(d)
    \/ \E d \in BagToSet(dialogs), hostOk \in BOOLEAN : StartInstall(d, hostOk)
    \/ \E d \in BagToSet(dialogs) : StartRemove(d)
    \/ \E t \in tasks : Resume(t)

SpecAsync == Init /\ [][NextAsync]_vars

---------------------------------------------------------------------------
(* Rarity labels and slot settings: one chassis and one modification of any
   label, the world settings open to change, Roll Check as the only
   resolution. *)

ChassisLabels == {"", "Common", "standard", "Rare", "exotic"}

ModLabels ==
    {"", "Common", "standard", "uncommon", "Rare", "prototype", "Very Rare",
     "exotic"}

\* The settings the GM changes in the model.
ConfigLabels == {"common", "standard", "rare"}

LabelItems(raw) ==
    [i \in Ids |->
        IF i = 1
        THEN Stored(RawItem(1, "Overcharge", "modification", raw,
                            <<>>, <<Effect("fx1")>>), "actor")
        ELSE NoItem]

InitRarity ==
    /\ chassis \in {[rarity |-> c, hasActor |-> TRUE] : c \in ChassisLabels}
    /\ settings = rarityDefaults
    /\ \E m \in ModLabels : items = LabelItems(m)
    /\ nextId = NumInitial + 1
    /\ installedMods = <<>>
    /\ properties = {}
    /\ effects = <<>>
    /\ dialogs = EmptyBag
    /\ tasks = {}
    /\ last = Report("init", "none", 0, "none", 0, TRUE)
    /\ undo = NoUndo

\* The GM saves a new value for one of the registered "Max Slots" settings.
SetSlots(label, n) ==
    /\ label \in ConfigLabels
    /\ n \in 1..MaxSlots
    /\ n # settings[label]
    /\ Cardinality({l \in DOMAIN settings :
                        [settings EXCEPT ![label] = n][l]
                            # rarityDefaults[l]}) <= MaxChanged
    /\ settings' = [settings EXCEPT ![label] = n]
    /\ last' = Report("config", "none", 0, "set", 0, TRUE)
    /\ undo' = NoUndo
    /\ UNCHANGED <<chassis, items, nextId, installedMods, properties,
                   effects, dialogs, tasks>>

NextRarity ==
    \/ \E label \in ConfigLabels, n \in 1..MaxSlots :
            SetSlots(label, n)
    \/ \E id \in Ids : Drop(id)
    \/ \E modId \in Ids : ClickRemove(modId)
    \/ \E d \in BagToSet(dialogs), d20 \in D20, hostOk \in BOOLEAN :
            RollInstall(d, d20, hostOk)
    \/ \E d \in BagToSet(dialogs), d20 \in D20, destroyOnFail \in BOOLEAN :
            RollRemove(d, d20, destroyOnFail)
    \/ \E d \in BagToSet(dialogs) : Cancel(d)

SpecRarity == InitRarity /\ [][NextRarity]_vars

---------------------------------------------------------------------------
(* Properties *)

Tags == Range(knownProperties)

Contributes(m, t) == t \in Range(m.properties)

\* The step just taken ran performInstall to its end.
Installed == last.outcome = "installed"

\* The step just taken ran performRemove (op is the dialog button).
Removed(op) ==
    /\ last.op = op
    /\ last.action = "remove"
    /\ last.outcome \in {"salvaged", "destroyed", "none", "threw"}

\* C1: the installedMods list of the chassis never has more entries than the
\* slot maximum configured for the chassis's rarity.
C1_SlotUsageWithinMax == Len(installedMods) <= slotMax(chassis)

\* C2: a drop of a modification whose rarity ordinal is greater than the
\* chassis's is rejected: it opens no dialog, draws no roll and leaves the
\* installedMods list as it was, whatever the free capacity.
C2_HigherRarityRejected ==
    [][(/\ last'.op = "drop"
        /\ items[last'.id] # NoItem
        /\ Rank(items[last'.id].rarity) > Rank(chassis.rarity))
       => (/\ last'.outcome \in {"notmod", "full", "rarity"}
           /\ last'.total = 0
           /\ dialogs' = dialogs
           /\ installedMods' = installedMods)]_vars

C2_Witness ==
    /\ last.op = "drop"
    /\ last.outcome = "rarity"
    /\ items[last.id] # NoItem
    /\ Rank(items[last.id].rarity) > Rank(chassis.rarity)
    /\ Len(installedMods) = 1
    /\ Len(installedMods) < slotMax(chassis)

\* C3: when two different installed modifications both contributed a tag,
\* removing one of them leaves the tag in the chassis's system.properties.
C3_SharedTagSurvives ==
    [][\A t \in Tags :
        (/\ Removed("direct")' \/ Removed("roll")'
         /\ t \in properties
         /\ \E i, j \in DOMAIN installedMods :
              /\ installedMods[i].id = last'.id
              /\ installedMods[j].id # last'.id
              /\ Contributes(installedMods[i], t)
              /\ Contributes(installedMods[j], t))
        => t \in properties']_vars

\* C4: once the last installed modification that contributed a tag has been
\* removed, the tag is not in the chassis's system.properties.
C4_LastContributorRemovesTag ==
    [][\A t \in Tags :
        (/\ Removed("direct")' \/ Removed("roll")'
         /\ findMod(installedMods, last'.id) # NoData
         /\ Contributes(findMod(installedMods, last'.id), t)
         /\ \A j \in DOMAIN installedMods' :
                ~Contributes(installedMods'[j], t))
        => t \notin properties']_vars

\* C5: the record performInstall recovers as originalData from a wrapped item
\* of type "modification" is the item's data before wrapping, for the
\* preCreateItem interceptor and for wrapModification alike.
C5_MaskRoundTrip ==
    [][(/\ last'.op \in {"create", "wrap"}
        /\ nextId' = nextId + 1
        /\ items[last'.id].type = "modification")
       => (/\ isWrappedMod(items'[nextId])
           /\ newModData(items'[nextId]).originalData
                = toObject(items[last'.id]))]_vars

C5_Witness ==
    \E i \in DOMAIN installedMods :
        /\ installedMods[i].id > NumInitial
        /\ installedMods[i].originalData.type = "modification"
        /\ installedMods[i].originalData.id = 3
        /\ installedMods[i].originalData.orig = NoData

\* C6: removing an id that is not in the installedMods list raises no
\* exception and changes neither the list, the tags, the effects nor any
\* inventory, with salvage and without.
C6_RemoveMissingIsNoOp ==
    [][(/\ Removed("direct")' \/ Removed("roll")'
        /\ findMod(installedMods, last'.id) = NoData)
       => (/\ last'.outcome # "threw"
           /\ installedMods' = installedMods
           /\ properties' = properties
           /\ effects' = effects
           /\ items' = items)]_vars

\* C7: no install or removal writes the installedMods list while another one
\* is between its read of the list and its write of the updated list.
C7_NoInterleavedWrite ==
    \A t \in tasks : t.currentMods = installedMods

\* C8: once performInstall has added a modification to the list, the source
\* item no longer exists where it was taken from.
C8_InstallConsumesSource ==
    [][Installed' => items'[last'.id] = NoItem]_vars

\* C9: a removal that succeeds with salvage (a passed roll, or Direct)
\* creates exactly one wrapped loot item carrying isWrappedMod and the
\* entry's originalData.
C9_SalvageReconstitutes ==
    [][(/\ \/ Removed("direct")'
           \/ Removed("roll")' /\ last'.total >= DC(findMod(installedMods,
                                                            last'.id).rarity)
        /\ findMod(installedMods, last'.id) # NoData)
       => (/\ nextId' = nextId + 1
           /\ items'[nextId] # NoItem
           /\ items'[nextId].type = "loot"
           /\ isWrappedMod(items'[nextId])
           /\ originalModData(items'[nextId])
                = findMod(installedMods, last'.id).originalData
           /\ \A k \in Ids \ {nextId} : items'[k] = items[k])]_vars

\* C10: a Direct install of a modification that is not installed yet,
\* followed by a Direct removal of it, leaves the chassis's installedMods,
\* system.properties and effects as they were before the install.
C10_InstallRemoveRollsBack ==
    [][(/\ Removed("direct")'
        /\ undo # NoUndo
        /\ undo.op = "direct"
        /\ undo.id = last'.id
        /\ \A i \in DOMAIN undo.mods : undo.mods[i].id # undo.id)
       => (/\ installedMods' = undo.mods
           /\ properties' = undo.props
           /\ effects' = undo.effects)]_vars

\* C11: whenever no install or removal is in progress, every effect of the
\* chassis that carries a sourceMod marker names a modification that is in
\* the installedMods list.
C11_NoOrphanedEffects ==
    tasks = {} =>
        \A k \in DOMAIN effects :
            \E i \in DOMAIN installedMods :
                installedMods[i].id = effects[k].sourceMod

\* The open dialogs of the given action for the item or entry with this id.
DialogsFor(action, id) ==
    {d \in BagToSet(dialogs) : d.action = action /\ d.mod.id = id}

\* The step just taken was a Roll Check of the given action whose total was
\* below the DC shown in the dialog.
RollFailed(action) ==
    /\ last'.op = "roll"
    /\ last'.action = action
    /\ last'.outcome # "noactor"
    /\ \E d \in DialogsFor(action, last'.id) :
            last'.total < DC(d.mod.rarity)

\* C12: a Checked removal whose roll fails with destroy-on-failure set
\* leaves no entry with that id in installedMods, leaves no chassis effect
\* whose sourceMod is that id, and creates no item.
C12_FailedRollDestroys ==
    [][(/\ RollFailed("remove")
        /\ last'.outcome \in {"destroyed", "threw"})
       => (/\ \A i \in DOMAIN installedMods' :
                    installedMods'[i].id # last'.id
           /\ \A k \in DOMAIN effects' : effects'[k].sourceMod # last'.id
           /\ items' = items
           /\ nextId' = nextId)]_vars

C12_Witness ==
    /\ last.op = "roll"
    /\ last.action = "remove"
    /\ last.outcome = "destroyed"
    /\ last.id = 1
    /\ last.total < DC("Common")
    /\ Len(installedMods) = 1
    /\ installedMods[1].id = 3
    /\ effects = <<>>

\* C13: a Checked removal whose roll fails with destroy-on-failure not set
\* leaves the installedMods list, the effects, the tags and the items as
\* they were.
C13_FailedRollKeeps ==
    [][(/\ RollFailed("remove")
        /\ last'.outcome \notin {"destroyed", "threw"})
       => (/\ last'.outcome = "kept"
           /\ installedMods' = installedMods
           /\ effects' = effects
           /\ properties' = properties
           /\ items' = items
           /\ nextId' = nextId)]_vars

C13_Witness ==
    /\ last.op = "roll"
    /\ last.action = "remove"
    /\ last.outcome = "kept"
    /\ last.total < DC("Common")
    /\ \E i \in DOMAIN installedMods : installedMods[i].id = last.id
    /\ \E k \in DOMAIN effects : effects[k].sourceMod = last.id

\* C14: a Checked install whose roll total is below the DC leaves the
\* installedMods list, the tags and the effects as they were and the source
\* item where it was.
C14_FailedInstallChangesNothing ==
    [][RollFailed("install")
       => (/\ last'.outcome = "failed"
           /\ installedMods' = installedMods
           /\ properties' = properties
           /\ effects' = effects
           /\ items' = items
           /\ nextId' = nextId)]_vars

C14_Witness ==
    /\ last.op = "roll"
    /\ last.action = "install"
    /\ last.outcome = "failed"
    /\ last.total < DC("Common")
    /\ items[last.id] # NoItem
    /\ items[last.id].where = "actor"
    /\ \A i \in DOMAIN installedMods : installedMods[i].id # last.id

\* C15: a drop of a modification on a chassis whose installed count equals
\* its maximum is rejected for capacity whatever the modification's rarity,
\* and a drop that fails only the rarity check is rejected for rarity; either
\* way no dialog opens, no roll is drawn and nothing changes.
C15_CapacityBeforeRarity ==
    [][(/\ last'.op = "drop"
        /\ items[last'.id] # NoItem
        /\ isModification(items[last'.id]))
       => (/\ Len(installedMods) = slotMax(chassis)
                => last'.outcome = "full"
           /\ (/\ Len(installedMods) < slotMax(chassis)
               /\ Rank(items[last'.id].rarity) > Rank(chassis.rarity))
                => last'.outcome = "rarity"
           /\ last'.outcome \in {"full", "rarity"}
                => (/\ last'.total = 0
                    /\ dialogs' = dialogs
                    /\ installedMods' = installedMods
                    /\ properties' = properties
                    /\ effects' = effects
                    /\ items' = items))]_vars

C15_Witness ==
    /\ last.op = "drop"
    /\ last.outcome = "full"
    /\ items[last.id] # NoItem
    /\ Rank(items[last.id].rarity) > Rank(chassis.rarity)
    /\ Len(installedMods) = slotMax(chassis)

\* C16: a Direct install ends with an entry for the modification in the
\* installedMods list, a Direct removal ends with no entry of that id in
\* the list, and neither draws a die.
C16_DirectAlwaysSucceeds ==
    [][(/\ last'.op = "direct"
        /\ last'.outcome # "awaiting")
       => (/\ last'.total = 0
           /\ last'.action = "install"
                => (/\ last'.outcome = "installed"
                    /\ \E i \in DOMAIN installedMods' :
                            installedMods'[i].id = last'.id)
           /\ last'.action = "remove"
                => \A i \in DOMAIN installedMods' :
                        installedMods'[i].id # last'.id)]_vars

C16_Witness ==
    /\ last.op = "direct"
    /\ last.action = "install"
    /\ last.outcome = "installed"
    /\ last.total = 0
    /\ Len(installedMods) = 2
    /\ installedMods[2].id = last.id
    /\ installedMods[1].id # last.id

\* C18: when the host rejects the creation of the projected effects, the
\* install is not reported as a completed install.
C18_EffectFailureReported ==
    [][(/\ last'.action = "install"
        /\ last'.op \in {"roll", "direct"}
        /\ ~last'.hostOk)
       => last'.outcome # "installed"]_vars

\* A label that is missing or that none of the rarity tables knows.
Lenient(raw) ==
    raw = "" \/ NormalizeRarity(raw) \notin DOMAIN rarityScale

\* C17: a missing or unknown rarity label gets the data of "common" in every
\* lookup: ordinal, DC and slot maximum.
C17_UnknownLabelIsCommon ==
    /\ \A i \in Ids :
        (items[i] # NoItem /\ Lenient(items[i].rarity))
            => (/\ Rank(items[i].rarity) = rarityScale["common"]
                /\ DC(items[i].rarity) = rarities["common"])
    /\ Lenient(chassis.rarity)
            => (/\ Rank(chassis.rarity) = rarityScale["common"]
                /\ slotMax(chassis) = settings["common"])

\* C19: a Roll Check succeeds exactly when its total, one d20 plus the
\* owner's Intelligence modifier and proficiency bonus, is at least the DC
\* of the modification's own rarity, for an install and for a removal.
C19_CheckedSucceedsAtOwnDC ==
    [][(/\ last'.op = "roll"
        /\ last'.outcome # "noactor")
       => (/\ last'.total \in {f + IntMod + Prof : f \in D20}
           /\ \A d \in DialogsFor(last'.action, last'.id) :
                IF last'.action = "install"
                THEN last'.outcome = "installed"
                        <=> last'.total >= DC(d.mod.rarity)
                ELSE last'.outcome \in {"salvaged", "none"}
                        <=> last'.total >= DC(d.mod.rarity))]_vars

C19_Witness ==
    /\ last.op = "roll"
    /\ last.action = "install"
    /\ last.outcome = "installed"
    /\ last.total = rarities["common"]
    /\ last.total < DC(chassis.rarity)
    /\ \E i \in DOMAIN installedMods :
            /\ installedMods[i].id = last.id
            /\ DC(installedMods[i].rarity) = last.total

\* C20: the ordinals rise strictly along common, uncommon, rare, veryrare,
\* legendary, artifact, and each synonym label has the ordinal, the DC and
\* the slot maximum of its canonical label under the current settings.
Synonyms ==
    {<<"standard", "common">>, <<"premium", "uncommon">>,
     <<"prototype", "rare">>, <<"advanced", "veryrare">>}

C20_SynonymsShareData ==
    /\ Rank("common") < Rank("uncommon")
    /\ Rank("uncommon") < Rank("rare")
    /\ Rank("rare") < Rank("veryrare")
    /\ Rank("veryrare") < Rank("legendary")
    /\ Rank("legendary") < Rank("artifact")
    /\ \A p \in Synonyms :
        /\ Rank(p[1]) = Rank(p[2])
        /\ DC(p[1]) = DC(p[2])
        /\ slotMax([rarity |-> p[1]]) = slotMax([rarity |-> p[2]])

\* C21: no item is partially masked: an item carries isWrappedMod exactly
\* when it carries originalModData, and an item that carries the flag has
\* type "loot".
C21_NoPartialMasking ==
    \A i \in Ids :
        items[i] # NoItem
            => (/\ isWrappedMod(items[i])
                    <=> originalModData(items[i]) # NoData
                /\ isWrappedMod(items[i]) => items[i].type = "loot")

C21_Witness ==
    /\ last.action = "remove"
    /\ last.outcome = "salvaged"
    /\ items[nextId - 1] # NoItem
    /\ isWrappedMod(items[nextId - 1])
    /\ items[nextId - 1].type = "loot"
    /\ originalModData(items[nextId - 1]).type = "modification"

\* C22: the ids of the entries of the installedMods list are pairwise
\* distinct.
C22_DistinctIds ==
    \A i, j \in DOMAIN installedMods :
        i # j => installedMods[i].id # installedMods[j].id

\* C23: a removal leaves the entries of every other id as they were and in
\* their order, and leaves every effect whose sourceMod is another id.
C23_RemovalFrame ==
    [][(Removed("direct")' \/ Removed("roll")')
       => (/\ installedMods'
                = SelectSeq(installedMods, LAMBDA m : m.id # last'.id)
           /\ effects'
                = SelectSeq(effects, LAMBDA e : e.sourceMod # last'.id))]_vars

\* C24: Roll Check on a chassis that has no owning actor draws no roll and
\* leaves the installedMods list, the tags, the effects and the items as
\* they were.
C24_RollWithoutActorIsNoOp ==
    [][(/\ last'.op = "roll"
        /\ ~chassis.hasActor)
       => (/\ last'.total = 0
           /\ installedMods' = installedMods
           /\ properties' = properties
           /\ effects' = effects
           /\ items' = items
           /\ nextId' = nextId)]_vars

C24_Witness ==
    /\ last.op = "roll"
    /\ last.action = "remove"
    /\ last.outcome = "noactor"
    /\ ~chassis.hasActor
    /\ \E i \in DOMAIN installedMods : installedMods[i].id = last.id


====
